---- MODULE Spec2Model ----
(***************************************************************************)
(* PageRank (pagerank.py): transition_model, sample_pagerank and           *)
(* iterate_pagerank as a state machine.                                    *)
(*                                                                         *)
(* Python's float arithmetic is modelled as exact arithmetic on the        *)
(* non-negative rationals m / Unit^e.  m is an arbitrary-precision natural *)
(* (a little-endian sequence of limbs in 0..9999), because the iteration   *)
(* produces numerators far beyond 32 bits.  Every number the code computes *)
(* on the inputs of this model has such a form, and the form is canonical  *)
(* (Unit does not divide m unless e = 0), so equal values are equal        *)
(* records.                                                                *)
(***************************************************************************)
EXTENDS Integers, Sequences, FiniteSets, TLC

\* ---------------------------------------------------------------- bounds
\* the largest number of pages of a corpus
MaxPages == 3

\* the largest sample count n of a sample_pagerank call
MaxSamples == 2

\* the denominator of the entries of the rank tables of GridTables
MaxGrid == 1

\* ------------------------------------------------------ program constants
\* DAMPING = 0.85, as numerator and denominator
DAMPING == <<17, 20>>

\* convergence_threshold = 0.001, as numerator and denominator
ThresholdFrac == <<1, 1000>>

\* the damping factors a call is made with: DAMPING and two other values
\* strictly between 0 and 1
ValidDampings == {<<1, 4>>, <<1, 2>>, DAMPING}

\* damping factors outside the open interval (0,1)
InvalidDampings == {<<0, 1>>, <<1, 1>>}

\* -------------------------------------------------- natural-number helpers
RECURSIVE Gcd(_, _)
Gcd(a, b) == IF b = 0 THEN a ELSE Gcd(b, a % b)

Lcm(a, b) == (a \div Gcd(a, b)) * b

RECURSIVE LcmUpTo(_)
LcmUpTo(k) == IF k <= 1 THEN 1 ELSE Lcm(LcmUpTo(k - 1), k)

RECURSIVE LcmOfDens(_)
LcmOfDens(S) ==
    IF S = {} THEN 1
    ELSE LET f == CHOOSE x \in S : TRUE IN Lcm(f[2], LcmOfDens(S \ {f}))

\* The unit of the number representation: every divisor the code can divide
\* by (a page count, an outlink count, a sample count) and every damping
\* denominator divides it.
Unit == Lcm(LcmOfDens(ValidDampings \cup InvalidDampings),
            Lcm(LcmUpTo(MaxPages), LcmUpTo(MaxSamples)))

RECURSIVE Pow(_, _)
Pow(b, k) == IF k = 0 THEN 1 ELSE b * Pow(b, k - 1)

\* ------------------------------------------- arbitrary-precision naturals
RECURSIVE BigFromNat(_)
BigFromNat(k) == IF k = 0 THEN <<>> ELSE <<k % 10000>> \o BigFromNat(k \div 10000)

RECURSIVE BigStrip(_)
BigStrip(a) ==
    IF a = <<>> THEN <<>>
    ELSE IF a[Len(a)] = 0 THEN BigStrip(SubSeq(a, 1, Len(a) - 1))
    ELSE a

RECURSIVE BigAddC(_, _, _)
BigAddC(a, b, c) ==
    IF a = <<>> /\ b = <<>> THEN BigFromNat(c)
    ELSE LET x == IF a = <<>> THEN 0 ELSE Head(a)
             y == IF b = <<>> THEN 0 ELSE Head(b)
             s == x + y + c
         IN <<s % 10000>> \o BigAddC(IF a = <<>> THEN a ELSE Tail(a),
                                     IF b = <<>> THEN b ELSE Tail(b),
                                     s \div 10000)

BigAdd(a, b) == BigAddC(a, b, 0)

\* a - b for a >= b, limb by limb with a borrow
RECURSIVE BigSubB(_, _, _)
BigSubB(a, b, brw) ==
    IF a = <<>> THEN <<>>
    ELSE LET y == IF b = <<>> THEN 0 ELSE Head(b)
             s == Head(a) - y - brw
         IN <<IF s < 0 THEN s + 10000 ELSE s>>
              \o BigSubB(Tail(a), IF b = <<>> THEN b ELSE Tail(b),
                         IF s < 0 THEN 1 ELSE 0)

BigSub(a, b) == BigStrip(BigSubB(a, b, 0))

\* a * k + c for a small natural k
RECURSIVE BigMulSmallC(_, _, _)
BigMulSmallC(a, k, c) ==
    IF a = <<>> THEN BigFromNat(c)
    ELSE LET s == Head(a) * k + c
         IN <<s % 10000>> \o BigMulSmallC(Tail(a), k, s \div 10000)

BigMulSmall(a, k) == IF k = 0 THEN <<>> ELSE BigMulSmallC(a, k, 0)

\* a * b, limb by limb of b
RECURSIVE BigMulBy(_, _)
BigMulBy(a, b) ==
    IF b = <<>> THEN <<>>
    ELSE IF Len(b) = 1 THEN BigMulSmall(a, b[1])
    ELSE BigAdd(BigMulSmall(a, Head(b)), <<0>> \o BigMulBy(a, Tail(b)))

\* a * b, limb by limb of the shorter factor
BigMul(a, b) ==
    IF a = <<>> \/ b = <<>> THEN <<>>
    ELSE IF Len(b) <= Len(a) THEN BigMulBy(a, b) ELSE BigMulBy(b, a)

\* -1, 0, 1 as a is less than, equal to, greater than b
RECURSIVE BigCmpFrom(_, _, _)
BigCmpFrom(a, b, i) ==
    IF i = 0 THEN 0
    ELSE IF a[i] < b[i] THEN -1
    ELSE IF a[i] > b[i] THEN 1
    ELSE BigCmpFrom(a, b, i - 1)

BigCmp(a, b) ==
    IF Len(a) < Len(b) THEN -1
    ELSE IF Len(a) > Len(b) THEN 1
    ELSE BigCmpFrom(a, b, Len(a))

\* <<quotient limbs i..Len(a), remainder>> of a divided by a small k
RECURSIVE BigDivFrom(_, _, _)
BigDivFrom(a, k, i) ==
    IF i > Len(a) THEN <<<<>>, 0>>
    ELSE LET h == BigDivFrom(a, k, i + 1)
             cur == h[2] * 10000 + a[i]
         IN <<(<<cur \div k>>) \o h[1], cur % k>>

\* a modulo a small k, from limb i up
RECURSIVE BigModFrom(_, _, _)
BigModFrom(a, k, i) ==
    IF i > Len(a) THEN 0 ELSE (BigModFrom(a, k, i + 1) * 10000 + a[i]) % k

RECURSIVE BigScale(_, _)
BigScale(a, k) == IF k = 0 THEN a ELSE BigScale(BigMulSmall(a, Unit), k - 1)

\* ------------------------------------------------- exact float arithmetic
\* the canonical form of m / Unit^e
RECURSIVE Norm(_, _)
Norm(m, e) ==
    IF m = <<>> THEN [m |-> <<>>, e |-> 0]
    ELSE IF e = 0 THEN [m |-> m, e |-> 0]
    ELSE IF BigModFrom(m, Unit, 1) = 0
    THEN Norm(BigStrip(BigDivFrom(m, Unit, 1)[1]), e - 1)
    ELSE [m |-> m, e |-> e]

Zero == Norm(<<>>, 0)

One == Norm(BigFromNat(1), 0)

\* the least k such that b divides Unit^k
RECURSIVE UnitExp(_, _)
UnitExp(b, k) == IF Pow(Unit, k) % b = 0 THEN k ELSE UnitExp(b, k + 1)

\* the float a / b for naturals a and b > 0
Frac(a, b) ==
    LET k == UnitExp(b, 0)
    IN Norm(BigMulSmall(BigFromNat(a), Pow(Unit, k) \div b), k)

Max(a, b) == IF a >= b THEN a ELSE b

Add(x, y) ==
    LET e == Max(x.e, y.e)
    IN Norm(BigAdd(BigScale(x.m, e - x.e), BigScale(y.m, e - y.e)), e)

Cmp(x, y) ==
    LET e == Max(x.e, y.e)
    IN BigCmp(BigScale(x.m, e - x.e), BigScale(y.m, e - y.e))

Less(x, y) == Cmp(x, y) = -1

\* x - y for x >= y
Sub(x, y) ==
    LET e == Max(x.e, y.e)
    IN Norm(BigSub(BigScale(x.m, e - x.e), BigScale(y.m, e - y.e)), e)

\* abs(x - y)
AbsDiff(x, y) == IF Less(x, y) THEN Sub(y, x) ELSE Sub(x, y)

Mul(x, y) == Norm(BigMul(x.m, y.m), x.e + y.e)

\* x / k for a positive integer k
Div(x, k) ==
    IF Unit % k = 0
    THEN Norm(BigMulSmall(x.m, Unit \div k), x.e + 1)
    ELSE Mul(x, Frac(1, k))

\* sum(page_ranks.values()) for integer counts
RECURSIVE SumInts(_, _)
SumInts(f, k) == IF k = 0 THEN 0 ELSE SumInts(f, k - 1) + f[k]

RECURSIVE SumOver(_, _)
SumOver(f, S) ==
    IF S = {} THEN Zero
    ELSE LET p == CHOOSE x \in S : TRUE IN Add(f[p], SumOver(f, S \ {p}))

\* ------------------------------------------------------------------ state
VARIABLES
    corpus,          \* the corpus: page i |-> the set of pages it links to
    damping_factor,  \* the damping_factor argument
    call,            \* the function being run
    page,            \* transition_model's page argument (0 in the other calls)
    n,               \* sample_pagerank's n argument (0 in the other calls)
    pc,              \* "start", "loop", "break", "done" or "error"
    i,               \* sample_pagerank: iterations of the walk done so far
    current_page,    \* sample_pagerank's current_page (0 before the choice)
    page_ranks,      \* the solver's page_ranks: visit counts or ranks
    new_ranks,       \* iterate_pagerank's new_ranks, filled page by page
    result           \* the value returned (<<>> before the return)

vars == <<corpus, damping_factor, call, page, n, pc, i, current_page,
          page_ranks, new_ranks, result>>

\* the corpora of N pages that crawl can return: no page links to itself and
\* every link target is a page of the corpus
Corpora(N) == {c \in [1..N -> SUBSET (1..N)] : \A p \in 1..N : p \notin c[p]}

ValidCorpora == UNION {Corpora(N) : N \in 1..MaxPages}

Float(f) == Frac(f[1], f[2])

convergence_threshold == Float(ThresholdFrac)

\* ---------------------------------------------------------- pure functions
\* mutant: the uniform term overwrites the link term instead of adding to it
transition_model_overwrite(c, pg, d) ==
    LET num_pages == Len(c)
    IN IF c[pg] = {}
       THEN [p \in DOMAIN c |-> Frac(1, num_pages)]
       ELSE LET link_probability == Div(d, Cardinality(c[pg]))
                linked == [l \in c[pg] |-> link_probability]
                all_pages_probability == Div(Sub(One, d), num_pages)
            IN [p \in (DOMAIN linked) \cup (DOMAIN c) |->
                   IF p \in DOMAIN c THEN all_pages_probability ELSE linked[p]]

\* mutant: a page without outlinks gets no special case and only the
\* teleport share is handed out
transition_model_no_dangling_case(c, pg, d) ==
    LET num_pages == Len(c)
        linked == [l \in c[pg] |-> Div(d, Max(1, Cardinality(c[pg])))]
        all_pages_probability == Div(Sub(One, d), num_pages)
    IN [p \in (DOMAIN linked) \cup (DOMAIN c) |->
           IF p \in DOMAIN c
           THEN Add(IF p \in DOMAIN linked THEN linked[p] ELSE Zero,
                    all_pages_probability)
           ELSE linked[p]]

\* mutant: the link share is divided by the number of pages, not of outlinks
transition_model_links_over_pages(c, pg, d) ==
    LET num_pages == Len(c)
    IN IF c[pg] = {}
       THEN [p \in DOMAIN c |-> Frac(1, num_pages)]
       ELSE LET link_probability == Div(d, num_pages)
                linked == [l \in c[pg] |-> link_probability]
                all_pages_probability == Div(Sub(One, d), num_pages)
            IN [p \in (DOMAIN linked) \cup (DOMAIN c) |->
                   IF p \in DOMAIN c
                   THEN Add(IF p \in DOMAIN linked THEN linked[p] ELSE Zero,
                            all_pages_probability)
                   ELSE linked[p]]

\* transition_model(corpus, page, damping_factor), for page in corpus
transition_model(c, pg, d) ==
    LET num_pages == Len(c)
    IN IF c[pg] = {}
       THEN [p \in DOMAIN c |-> Frac(1, num_pages)]
       ELSE LET link_probability == Div(d, Cardinality(c[pg]))
                linked == [l \in c[pg] |-> link_probability]
                all_pages_probability == Div(Sub(One, d), num_pages)
            IN [p \in (DOMAIN linked) \cup (DOMAIN c) |->
                   IF p \in DOMAIN c
                   THEN Add(IF p \in DOMAIN linked THEN linked[p] ELSE Zero,
                            all_pages_probability)
                   ELSE linked[p]]

\* mutant: a linking page without outlinks contributes nothing
RECURSIVE linking_loop_no_dangling(_, _, _, _, _, _)
linking_loop_no_dangling(c, ranks, d, pg, k, acc) ==
    IF k > Len(c) THEN acc
    ELSE linking_loop_no_dangling(c, ranks, d, pg, k + 1,
             IF pg \in c[k]
             THEN Add(acc, Mul(d, Div(ranks[k], Cardinality(c[k]))))
             ELSE acc)

\* the inner loop of iterate_pagerank over corpus.items(), from the k-th
\* linking page on, with new_rank accumulated in acc
RECURSIVE linking_loop(_, _, _, _, _, _)
linking_loop(c, ranks, d, pg, k, acc) ==
    IF k > Len(c) THEN acc
    ELSE linking_loop(c, ranks, d, pg, k + 1,
             IF c[k] = {}
             THEN Add(acc, Mul(d, Div(ranks[k], Len(c))))
             ELSE IF pg \in c[k]
             THEN Add(acc, Mul(d, Div(ranks[k], Cardinality(c[k]))))
             ELSE acc)

\* mutant: the teleport term is not divided by the number of pages
new_rank_teleport_undivided(c, ranks, d, pg) ==
    linking_loop(c, ranks, d, pg, 1, Sub(One, d))

\* the new_rank the outer loop body computes for one page
new_rank(c, ranks, d, pg) ==
    linking_loop(c, ranks, d, pg, 1, Div(Sub(One, d), Len(c)))

\* mutant: any(...) in place of all(...)
converged_any(new, old) ==
    \E p \in DOMAIN old : Less(AbsDiff(new[p], old[p]), convergence_threshold)

\* all(abs(new_ranks[page] - page_ranks[page]) < convergence_threshold ...)
converged(new, old) ==
    \A p \in DOMAIN old : Less(AbsDiff(new[p], old[p]), convergence_threshold)

\* ------------------------------------------------------------------- calls
Calls == {"transition_model", "sample_pagerank", "iterate_pagerank"}

InitLocals ==
    /\ pc = "start"
    /\ i = 0
    /\ current_page = 0
    /\ page_ranks = <<>>
    /\ new_ranks = <<>>
    /\ result = <<>>

\* a call of f with arguments that meet the documented preconditions
InitCall(f) ==
    /\ corpus \in ValidCorpora
    /\ damping_factor \in {Float(d) : d \in ValidDampings}
    /\ call = f
    /\ page \in IF call = "transition_model" THEN DOMAIN corpus ELSE {0}
    /\ n \in IF call = "sample_pagerank" THEN 1..MaxSamples ELSE {0}
    /\ InitLocals

InitTransition == InitCall("transition_model")

InitSample == InitCall("sample_pagerank")

InitIterate == InitCall("iterate_pagerank")

\* any call, the arguments that break a precondition included
InitAny ==
    /\ corpus \in ValidCorpora \cup {<<>>}
    /\ damping_factor \in {Float(f) : f \in ValidDampings \cup InvalidDampings}
    /\ call \in Calls
    /\ page \in IF call = "transition_model" THEN 1..MaxPages ELSE {0}
    /\ n \in IF call = "sample_pagerank" THEN (-1)..MaxSamples ELSE {0}
    /\ InitLocals

\* ------------------------------------------------------------------ actions
\* transition_model, whole: corpus[page] raises KeyError for a page that is
\* not a key of the corpus
TransitionModel ==
    /\ call = "transition_model" /\ pc = "start"
    /\ IF page \in DOMAIN corpus
       THEN /\ result' = transition_model(corpus, page, damping_factor)
            /\ pc' = "done"
       ELSE /\ pc' = "error"
            /\ UNCHANGED result
    /\ UNCHANGED <<corpus, damping_factor, call, page, n, i, current_page,
                   page_ranks, new_ranks>>

\* mutant: the start page is counted as a visit
SampleStartCounted ==
    /\ call = "sample_pagerank" /\ pc = "start"
    /\ \E start \in DOMAIN corpus :
         /\ current_page' = start
         /\ page_ranks' = [p \in DOMAIN corpus |-> IF p = start THEN 1 ELSE 0]
    /\ pc' = "loop"
    /\ UNCHANGED <<corpus, damping_factor, call, page, n, i, new_ranks, result>>

\* sample_pagerank: the counters and the start page; random.choice raises
\* IndexError on an empty list
SampleStart ==
    /\ call = "sample_pagerank" /\ pc = "start"
    /\ page_ranks' = [p \in DOMAIN corpus |-> 0]
    /\ IF DOMAIN corpus = {}
       THEN /\ pc' = "error"
            /\ UNCHANGED current_page
       ELSE /\ current_page' \in DOMAIN corpus
            /\ pc' = "loop"
    /\ UNCHANGED <<corpus, damping_factor, call, page, n, i, new_ranks, result>>

\* one iteration of the walk; random.choices draws a page of positive weight
SampleStep ==
    /\ call = "sample_pagerank" /\ pc = "loop" /\ i < n
    /\ LET distribution == transition_model(corpus, current_page, damping_factor)
       IN \E next \in DOMAIN distribution :
            /\ distribution[next] # Zero
            /\ current_page' = next
            /\ page_ranks' = [page_ranks EXCEPT ![next] = @ + 1]
    /\ i' = i + 1
    /\ UNCHANGED <<corpus, damping_factor, call, page, n, pc, new_ranks, result>>

\* the normalisation and the return; count / 0 raises ZeroDivisionError
SampleReturn ==
    /\ call = "sample_pagerank" /\ pc = "loop" /\ i >= n
    /\ LET total_samples == SumInts(page_ranks, Len(page_ranks))
       IN IF total_samples = 0
          THEN /\ pc' = "error"
               /\ UNCHANGED result
          ELSE /\ result' = [p \in DOMAIN page_ranks |->
                                Frac(page_ranks[p], total_samples)]
               /\ pc' = "done"
    /\ UNCHANGED <<corpus, damping_factor, call, page, n, i, current_page,
                   page_ranks, new_ranks>>

\* iterate_pagerank up to the loop; 1 / 0 raises ZeroDivisionError
IterateStart ==
    /\ call = "iterate_pagerank" /\ pc = "start"
    /\ IF Len(corpus) = 0
       THEN /\ pc' = "error"
            /\ UNCHANGED page_ranks
       ELSE /\ page_ranks' = [p \in DOMAIN corpus |-> Frac(1, Len(corpus))]
            /\ pc' = "loop"
    /\ UNCHANGED <<corpus, damping_factor, call, page, n, i, current_page,
                   new_ranks, result>>

\* mutant: the new rank is also written into page_ranks at once
IteratePageInPlace ==
    /\ call = "iterate_pagerank" /\ pc = "loop"
    /\ Len(new_ranks) < Len(corpus)
    /\ LET pg == Len(new_ranks) + 1
           r == new_rank(corpus, page_ranks, damping_factor, pg)
       IN /\ new_ranks' = Append(new_ranks, r)
          /\ page_ranks' = [page_ranks EXCEPT ![pg] = r]
    /\ UNCHANGED <<corpus, damping_factor, call, page, n, pc, i, current_page,
                   result>>

\* one iteration of "for page in corpus": the next page's new rank
IteratePage ==
    /\ call = "iterate_pagerank" /\ pc = "loop"
    /\ Len(new_ranks) < Len(corpus)
    /\ new_ranks' = Append(new_ranks,
           new_rank(corpus, page_ranks, damping_factor, Len(new_ranks) + 1))
    /\ UNCHANGED <<corpus, damping_factor, call, page, n, pc, i, current_page,
                   page_ranks, result>>

\* mutant: the old table is never replaced by the new one
IterateCheckKeepOld ==
    /\ call = "iterate_pagerank" /\ pc = "loop"
    /\ Len(new_ranks) = Len(corpus)
    /\ IF converged(new_ranks, page_ranks)
       THEN /\ pc' = "break"
            /\ UNCHANGED new_ranks
       ELSE /\ new_ranks' = <<>>
            /\ UNCHANGED pc
    /\ UNCHANGED <<corpus, damping_factor, call, page, n, i, current_page,
                   page_ranks, result>>

\* the convergence test: break, or replace the table and start the next pass
IterateCheck ==
    /\ call = "iterate_pagerank" /\ pc = "loop"
    /\ Len(new_ranks) = Len(corpus)
    /\ IF converged(new_ranks, page_ranks)
       THEN /\ pc' = "break"
            /\ UNCHANGED <<page_ranks, new_ranks>>
       ELSE /\ page_ranks' = new_ranks
            /\ new_ranks' = <<>>
            /\ UNCHANGED pc
    /\ UNCHANGED <<corpus, damping_factor, call, page, n, i, current_page, result>>

\* return page_ranks
IterateReturn ==
    /\ call = "iterate_pagerank" /\ pc = "break"
    /\ result' = page_ranks
    /\ pc' = "done"
    /\ UNCHANGED <<corpus, damping_factor, call, page, n, i, current_page,
                   page_ranks, new_ranks>>

NextSample ==
    \/ SampleStart
    \/ SampleStep
    \/ SampleReturn

NextIterate ==
    \/ IterateStart
    \/ IteratePage
    \/ IterateCheck
    \/ IterateReturn

Next ==
    \/ TransitionModel
    \/ SampleStart
    \/ SampleStep
    \/ SampleReturn
    \/ IterateStart
    \/ IteratePage
    \/ IterateCheck
    \/ IterateReturn

\* one specification for each function, called with valid arguments
SpecTransition == InitTransition /\ [][TransitionModel]_vars

SpecSample == InitSample /\ [][NextSample]_vars

SpecIterate == InitIterate /\ [][NextIterate]_vars

\* a call is running until it has returned or raised; in every such state
\* one of the actions of its function is enabled
Running == pc \notin {"done", "error"}

\* The single thread of the program keeps executing until the call ends: weak
\* fairness of NextIterate, WF_vars(NextIterate), stated with
\* ENABLED <<NextIterate>>_vars written out as Running.
SpecIterateFair ==
    /\ InitIterate
    /\ [][NextIterate]_vars
    /\ ([]<>(~Running) \/ []<><<NextIterate>>_vars)

SpecAny == InitAny /\ [][Next]_vars

\* =================================================================== claims
NumPages == Len(corpus)

\* the damping factor of the call as <<numerator, denominator>>
DampingFrac ==
    CHOOSE f \in ValidDampings \cup InvalidDampings : Float(f) = damping_factor

LessEq(x, y) == ~Less(y, x)

ReturnedBy(f) == call = f /\ pc = "done"

\* ---- C1
\* C1: for a non-empty valid corpus, a page of it and a damping factor in
\* (0,1), transition_model returns a mapping whose keys are exactly the corpus
\* keys, whose values are non-negative and whose values sum to 1.
C1_TransitionIsDistribution ==
    ReturnedBy("transition_model") =>
        /\ DOMAIN result = DOMAIN corpus
        /\ \A p \in DOMAIN result : LessEq(Zero, result[p])
        /\ SumOver(result, DOMAIN result) = One

C1_Witness ==
    /\ ReturnedBy("transition_model")
    /\ NumPages = 3
    /\ Cardinality(corpus[page]) = 1
    /\ damping_factor = Float(DAMPING)

\* ---- C2
\* C2: for a page whose outlink set is empty, transition_model returns exactly
\* 1/N for every page of the corpus, whatever the damping factor.
C2_DanglingIsUniform ==
    (ReturnedBy("transition_model") /\ corpus[page] = {}) =>
        /\ DOMAIN result = DOMAIN corpus
        /\ \A p \in DOMAIN corpus : result[p] = Frac(1, NumPages)

C2_Witness ==
    /\ ReturnedBy("transition_model")
    /\ corpus[page] = {}
    /\ NumPages = 3
    /\ \E q \in DOMAIN corpus : corpus[q] # {}

\* ---- C3
\* C3: for a page with L >= 1 outlinks in a corpus of N pages and damping
\* a/b, each linked page gets a/(b*L) + (b-a)/(b*N), computed here as the
\* single fraction (a*N + (b-a)*L) / (b*L*N), and every other page of the
\* corpus, the current page included, gets (b-a)/(b*N).
C3_LinkedAndTeleportShares ==
    (ReturnedBy("transition_model") /\ corpus[page] # {}) =>
        LET a == DampingFrac[1]
            b == DampingFrac[2]
            L == Cardinality(corpus[page])
            N == NumPages
        IN \A p \in DOMAIN corpus :
              result[p] = IF p \in corpus[page]
                          THEN Frac(a * N + (b - a) * L, b * L * N)
                          ELSE Frac(b - a, b * N)

C3_Witness ==
    /\ ReturnedBy("transition_model")
    /\ NumPages = 3
    /\ Cardinality(corpus[page]) = 2
    /\ damping_factor = Float(DAMPING)

\* ---- C4
\* C4: in sample_pagerank with n >= 1, after k steps of the walk the visit
\* counters sum to exactly k (the start page is not counted); on return each
\* page's rank is its visit count divided by n, the ranks sum to 1 and every
\* corpus page has an entry.
C4_SampleCounts ==
    (call = "sample_pagerank" /\ pc \in {"loop", "done"}) =>
        /\ DOMAIN page_ranks = DOMAIN corpus
        /\ SumInts(page_ranks, NumPages) = i
        /\ i <= n
        /\ pc = "done" =>
             /\ i = n
             /\ DOMAIN result = DOMAIN corpus
             /\ \A p \in DOMAIN corpus : result[p] = Frac(page_ranks[p], n)
             /\ SumOver(result, DOMAIN result) = One

C4_Witness ==
    /\ ReturnedBy("sample_pagerank")
    /\ n >= 2
    /\ NumPages = 3
    /\ \E p, q \in DOMAIN corpus : p # q /\ page_ranks[p] > 0 /\ page_ranks[q] > 0

\* the recurrence as the design states it: for page p, from table r,
\* (1-d)/N + d * sum over every page q of [r(q)/N if q has no outlinks,
\* r(q)/|links(q)| if p is in links(q), else 0]
Contribution(c, r, p) ==
    [q \in DOMAIN c |->
        IF c[q] = {} THEN Div(r[q], Len(c))
        ELSE IF p \in c[q] THEN Div(r[q], Cardinality(c[q]))
        ELSE Zero]

Recurrence(c, r, d, p) ==
    Add(Div(Sub(One, d), Len(c)),
        Mul(d, SumOver(Contribution(c, r, p), DOMAIN c)))

\* ---- C5
\* C5: applying the recurrence once more to the table iterate_pagerank
\* returns changes every page's rank by less than 0.001.
C5_ReturnedIsFixedPoint ==
    ReturnedBy("iterate_pagerank") =>
        \A p \in DOMAIN corpus :
            Less(AbsDiff(Recurrence(corpus, result, damping_factor, p), result[p]),
                 Frac(1, 1000))

C5_Witness ==
    /\ ReturnedBy("iterate_pagerank")
    /\ NumPages = 3
    /\ \E p \in DOMAIN corpus : result[p] # Frac(1, NumPages)
    /\ \E p \in DOMAIN corpus :
           Recurrence(corpus, result, damping_factor, p) # result[p]

\* a table with an entry in [0,1] for every corpus page, the entries summing to 1
IsRankTable(t) ==
    /\ DOMAIN t = DOMAIN corpus
    /\ \A p \in DOMAIN t : LessEq(Zero, t[p]) /\ LessEq(t[p], One)
    /\ SumOver(t, DOMAIN t) = One

\* ---- C6
\* C6: the rank table iterate_pagerank holds at the start and after every
\* pass, and the table it returns, has an entry for every corpus page, every
\* entry in [0,1], and entries that sum to 1.
C6_RankTableInvariant ==
    /\ (call = "iterate_pagerank" /\ pc = "loop" /\ new_ranks = <<>>) =>
           IsRankTable(page_ranks)
    /\ ReturnedBy("iterate_pagerank") => IsRankTable(result)

C6_Witness ==
    /\ call = "iterate_pagerank" /\ pc = "loop"
    /\ NumPages = 3
    /\ new_ranks = <<>>
    /\ \E p \in DOMAIN corpus : corpus[p] = {}
    /\ \E p, q \in DOMAIN corpus : Less(page_ranks[p], page_ranks[q])

\* ---- C7
\* C7: iterate_pagerank terminates: every call of it on a corpus with at
\* least one page and a damping factor in (0,1) eventually returns.
C7_IterateTerminates == <>(pc = "done")

C7_Witness ==
    /\ ReturnedBy("iterate_pagerank")
    /\ NumPages = 3
    /\ damping_factor = Float(DAMPING)
    /\ \E p \in DOMAIN corpus : Less(result[p], Frac(1, 10))

\* the documented preconditions of the call
ValidInput ==
    /\ Len(corpus) >= 1
    /\ Less(Zero, damping_factor) /\ Less(damping_factor, One)
    /\ call = "transition_model" => page \in DOMAIN corpus
    /\ call = "sample_pagerank" => n >= 1

\* ---- C8
\* C8: every invalid input (empty corpus, page not in the corpus, n <= 0,
\* damping factor outside (0,1)) is surfaced as an error: no distribution or
\* rank table is returned for an invalid input.
C8_InvalidInputRejected == pc = "done" => ValidInput

\* ---- C9
\* C9: every pass is a synchronous update: when a pass has computed all its
\* new ranks, each is the recurrence applied to the table of the previous
\* pass, which is still the table held; and that table is replaced, by the
\* new one, only when the convergence test fails.
PassComplete ==
    call = "iterate_pagerank" /\ pc = "loop" /\ Len(new_ranks) = NumPages

C9_NewRanksFromOldTable ==
    PassComplete =>
        \A p \in DOMAIN corpus :
            new_ranks[p] = Recurrence(corpus, page_ranks, damping_factor, p)

C9_TableReplacedOnFailedTest ==
    (call = "iterate_pagerank" /\ pc # "start" /\ page_ranks' # page_ranks) =>
        /\ DOMAIN new_ranks = DOMAIN corpus
        /\ \E p \in DOMAIN corpus :
               ~Less(AbsDiff(new_ranks[p], page_ranks[p]), Frac(1, 1000))
        /\ page_ranks' = new_ranks

C9_SynchronousUpdate ==
    [](C9_NewRanksFromOldTable) /\ [][C9_TableReplacedOnFailedTest]_vars

C9_Witness ==
    /\ call = "iterate_pagerank" /\ pc = "loop"
    /\ NumPages = 3
    /\ Len(new_ranks) = 3
    /\ \E p \in DOMAIN corpus : page_ranks[p] # Frac(1, NumPages)
    /\ \E p \in DOMAIN corpus :
           ~Less(AbsDiff(new_ranks[p], page_ranks[p]), Frac(1, 1000))

\* the transition matrix as a sequence of rows: row q, column p holds
\* transition_model(c, q, d)[p]
RECURSIVE TransitionRow(_, _, _, _)
TransitionRow(c, q, d, k) ==
    IF k = 0 THEN <<>>
    ELSE Append(TransitionRow(c, q, d, k - 1), transition_model(c, q, d)[k])

RECURSIVE TransitionRows(_, _, _)
TransitionRows(c, d, k) ==
    IF k = 0 THEN <<>>
    ELSE Append(TransitionRows(c, d, k - 1), TransitionRow(c, k, d, Len(c)))

\* one step of the Markov chain with transition matrix T from distribution r
ChainStep(T, r, p) ==
    SumOver([q \in DOMAIN r |-> Mul(r[q], T[q][p])], DOMAIN r)

\* the tables over the corpus pages with entries k / MaxGrid that sum to 1
GridTables ==
    {[p \in DOMAIN corpus |-> Frac(t[p], MaxGrid)] :
        t \in {u \in [DOMAIN corpus -> 0..MaxGrid] : SumInts(u, NumPages) = MaxGrid}}

\* ---- C10
\* C10: one pass of the iterate_pagerank recurrence from a table r that sums
\* to 1 gives every page p the value sum over q of
\* r(q) * transition_model(corpus, q, damping)[p]; checked, when the first
\* pass starts, for the initial table and every table of GridTables, and,
\* when the loop breaks, for the last pass the code made.
FirstPassStart ==
    /\ call = "iterate_pagerank" /\ pc = "loop" /\ new_ranks = <<>>
    /\ page_ranks = [p \in DOMAIN corpus |-> Frac(1, NumPages)]

LastPassDone == call = "iterate_pagerank" /\ pc = "break"

C10_PassIsChainStep ==
    (FirstPassStart \/ LastPassDone) =>
        \A T \in {TransitionRows(corpus, damping_factor, NumPages)} :
            /\ FirstPassStart =>
                   \A r \in GridTables \cup {page_ranks} : \A p \in DOMAIN corpus :
                       new_rank(corpus, r, damping_factor, p) = ChainStep(T, r, p)
            /\ LastPassDone =>
                   \A p \in DOMAIN corpus :
                       new_ranks[p] = ChainStep(T, page_ranks, p)

C10_Witness ==
    /\ LastPassDone
    /\ NumPages = 3
    /\ \E q \in DOMAIN corpus : corpus[q] = {}
    /\ \E q \in DOMAIN corpus : Cardinality(corpus[q]) = 2
    /\ \E p \in DOMAIN corpus : new_ranks[p] # page_ranks[p]
    /\ \E p \in DOMAIN corpus : page_ranks[p] # Frac(1, NumPages)

====
